---------------------------- MODULE Spec2Model ----------------------------
(***************************************************************************)
(* A model of Gallagator/realtime_fft.                                     *)
(*                                                                         *)
(*   SpecFft : the recursive in-place FFT of src/src/fft.rs                *)
(*             (FFTransformer::fft, basic_fft, normalise), driven the way  *)
(*             its test fft_is_injective drives it.                        *)
(*   Spec    : the realtime engine of src/src/realtime_fft.rs              *)
(*             (RealtimeFft::update / process_fft on the consumer thread,  *)
(*             the audio callback on the producer thread, three mutexes).  *)
(*   SpecSdft: the single-threaded sliding DFT of src/src/sliding_dft.rs   *)
(*             (SlidingDft::new / update over a polled source).            *)
(*                                                                         *)
(* Complex numbers are exact: a value is an element of Z[zeta] with        *)
(* zeta = exp(i*pi/RingM), zeta^RingM = -1, written as the tuple of its    *)
(* RingM integer coefficients.  Every twiddle factor of a transform whose  *)
(* length divides 2*RingM is a power of zeta, so the arithmetic of the     *)
(* transforms is the arithmetic of the code without floating-point         *)
(* rounding error.                                                         *)
(***************************************************************************)
EXTENDS Integers, Sequences, FiniteSets, TLC

VARIABLES
    \* ---- FFTransformer (src/src/fft.rs) and the harness that calls it
    debug_assertions,   \* the build: are debug_assert!s compiled in
    buffer,             \* FFTransformer.buffer, the scratch vector
    xs,                 \* the vector the round trip started from
    arg,                \* the argument of the last fft call
    dir,                \* the Direction of the last fft call
    transformed_xs,     \* the vector returned by the last call
    stage,              \* where the harness is
    calls,              \* round trips started on this FFTransformer
    \* ---- the engine (src/src/realtime_fft.rs, src/src/audio_input.rs)
    now,                \* the clock read by Instant::now(), in ticks
    src_kind,           \* which callback feeds the engine: "SrcInfo" or "InputStream"
    sample_rate,        \* dft_src.sample_rate(), in samples per second
    latency,            \* RealtimeFft.latency = window_duration, in ticks
    sliding_dft,        \* RealtimeFft.sliding_dft, the Spectrum
    capacity,           \* capacity of the ring buffer
    ring,               \* the unread samples of the ring buffer, oldest first
    sample_at_instant,  \* LatencyInfo.sample_at_instant: <<>> or << <<count, instant>> >>
    max_latency,        \* LatencyInfo.max_latency: <<>> or <<duration>>
    mutex,              \* owner of each Mutex: sample_prod, sample_cons, latency_info
    cpc,                \* consumer thread: where it is in update()/process_fft()
    window_start_sample,\* the local of update() passed to process_fft() (0 outside a call)
    discarded,          \* what process_fft's discard removed (0 outside a call)
    ppc,                \* producer thread: where it is in the callback
    data,               \* the callback's data slice
    sample_prod_remaining, \* the callback's local of that name
    delivered,          \* samples the hardware has produced so far
    deliveries,         \* callbacks started so far
    quiet_calls,        \* update() calls started since the last step of the producer (up to 2)
    ticked,             \* has the clock advanced since the first of those calls started
    \* ---- SlidingDft (src/src/sliding_dft.rs)
    instant_sub,        \* the toolchain: Instant - Instant "saturates" or "panics" when negative
    max_buffer_size,    \* what dft_src.max_buffer_size() returns
    sample_buf,         \* SlidingDft.sample_prod/sample_cons: the occupied region, oldest first
    sample_buf_capacity,\* capacity of that ring buffer
    newest_fill_instant,\* SlidingDft.newest_fill_instant, in ticks
    sdft_latency,       \* SlidingDft.latency, in ticks
    halt_instant,       \* SlidingDft.halt_instant: <<>> or <<instant>>
    dft,                \* SlidingDft.sliding_dft, the DFT bins
    window_start,       \* the local window_start of the last update(), line 84
    returned_at         \* where the last update() ended

fftvars == <<debug_assertions, buffer, xs, arg, dir, transformed_xs, stage, calls>>

cfgvars == <<src_kind, sample_rate, latency>>

ringvars == <<capacity, ring>>

trackervars == <<sample_at_instant, max_latency>>

consvars == <<cpc, window_start_sample, discarded>>

prodvars == <<ppc, data, sample_prod_remaining, delivered, deliveries>>

enginevars == <<now, cfgvars, sliding_dft, ringvars, trackervars, mutex,
                consvars, prodvars, quiet_calls, ticked>>

sdftvars == <<instant_sub, max_buffer_size, sample_buf, sample_buf_capacity,
              newest_fill_instant, sdft_latency, halt_instant, dft, window_start,
              returned_at>>

vars == <<fftvars, enginevars, sdftvars>>

-----------------------------------------------------------------------------
(* Bounds *)

\* transforms of length 2 .. 2^MaxLogN
MaxLogN == 3
\* round trips made on one FFTransformer
MaxRounds == 2
\* the clock runs from 0 to MaxTime ticks
MaxTime == 2
\* ticks per second
TicksPerSec == 3
\* samples per second of the source the consumer loop runs on (sample_rate())
SampleRate == 4
\* RealtimeFft::new is tried on sample rates 1 .. MaxRate
MaxRate == 8
\* and on window durations of 1 .. MaxDuration ticks
MaxDuration == 7
\* callbacks the hardware makes
MaxDeliveries == 4
\* a callback's data slice has 1 or MaxChunk samples
MaxChunk == 5

-----------------------------------------------------------------------------
(* Exact complex arithmetic *)

RECURSIVE Pow2(_)
Pow2(k) == IF k = 0 THEN 1 ELSE 2 * Pow2(k - 1)

\* zeta = exp(i*pi/RingM) is a primitive 2^MaxLogN-th root of unity
RingM == Pow2(MaxLogN - 1)

\* coefficient k of a value c is c[k + 1]
Coef == 1 .. RingM

CZero == SubSeq([k \in Coef |-> 0], 1, RingM)

CInt(n) == SubSeq([k \in Coef |-> IF k = 1 THEN n ELSE 0], 1, RingM)

COne == CInt(1)

\* zeta^p
Zeta(p) ==
    LET q == p % (2 * RingM)
    IN  SubSeq([k \in Coef |-> IF q < RingM
                               THEN (IF k = q + 1 THEN 1 ELSE 0)
                               ELSE (IF k = q - RingM + 1 THEN -1 ELSE 0)],
               1, RingM)

\* the real number x times c
CScale(x, c) == SubSeq([k \in Coef |-> x * c[k]], 1, RingM)

CAdd(a, b) == SubSeq([k \in Coef |-> a[k] + b[k]], 1, RingM)

CSub(a, b) == SubSeq([k \in Coef |-> a[k] - b[k]], 1, RingM)

RECURSIVE MulCoef(_, _, _, _)
\* coefficient k of a*b, summing the products a_i*b_j with i+j = k (mod RingM),
\* those that wrap picking up zeta^RingM = -1
MulCoef(a, b, k, i) ==
    IF i = RingM THEN 0
    ELSE (IF k >= i THEN a[i + 1] * b[k - i + 1]
                    ELSE 0 - a[i + 1] * b[k - i + RingM + 1])
         + MulCoef(a, b, k, i + 1)

CMul(a, b) == SubSeq([k \in Coef |-> MulCoef(a, b, k - 1, 0)], 1, RingM)

\* truncating division toward zero, as a stand-in for the real division of a
\* coefficient that is a multiple of n
QuotInt(x, n) == IF x >= 0 THEN x \div n ELSE 0 - ((0 - x) \div n)

\* c / n for a real n
CDivReal(c, n) == SubSeq([k \in Coef |-> QuotInt(c[k], n)], 1, RingM)

IsPowerOfTwo(n) == \E k \in 0 .. (MaxLogN + 2) : n = Pow2(k)

-----------------------------------------------------------------------------
(* src/src/fft.rs *)

\* Vec<T> is a sequence; the element at Rust index i is v[i + 1]
At(v, i) == v[i + 1]

Put(v, i, x) == [v EXCEPT ![i + 1] = x]

\* the two directions exchanged
FromPolarSwapped(len, d) ==
    IF len > 0 /\ (2 * RingM) % len = 0
    THEN IF d = "FORWARD" THEN Zeta((2 * RingM) \div len)
                          ELSE Zeta(2 * RingM - (2 * RingM) \div len)
    ELSE COne

\* Complex::from_polar(1.0, angle) for angle = -+ 2*pi/len  (fft.rs:92-97).
\* For a length that does not divide 2*RingM the value is not a power of
\* zeta and 1 stands in for it: of a call with such a length the model gives
\* the outcome (panic, endless recursion, or a returned vector and its
\* length), not the numbers in the returned vector.
FromPolar(len, d) ==
    IF len > 0 /\ (2 * RingM) % len = 0
    THEN IF d = "FORWARD" THEN Zeta(2 * RingM - (2 * RingM) \div len)
                          ELSE Zeta((2 * RingM) \div len)
    ELSE COne

\* where iteration i of the combine loop of a level of size n reads its even
\* term: entry `at` of self.buffer, or transformed_xs[index(at)]  (fft.rs:59-63)
EvenSource(n, i) ==
    IF i >= n \div 4
    THEN [in |-> "buffer", at |-> (2 * i) % (n \div 4)]
    ELSE [in |-> "transformed_xs", at |-> 2 * i]

\* the last iteration reads the scratch buffer as the ones before it do
OddSourceAlwaysScratch(n, i) ==
    IF i >= n \div 4
    THEN [in |-> "buffer", at |-> (2 * i + 1) % (n \div 4)]
    ELSE [in |-> "transformed_xs", at |-> 2 * i + 1]

\* where it reads its odd term  (fft.rs:64-68)
OddSource(n, i) ==
    IF i >= n \div 4 /\ i < n \div 2 - 1
    THEN [in |-> "buffer", at |-> (2 * i + 1) % (n \div 4)]
    ELSE [in |-> "transformed_xs", at |-> 2 * i + 1]

\* the read itself; st = [t: transformed_xs, buf: self.buffer]
Fetch(st, src, start, step) ==
    IF src.in = "buffer" THEN At(st.buf, src.at)
                         ELSE At(st.t, start + step * src.at)

\* self.buffer[i % (n / 4)] = transformed_xs[index(i + n / 2)]  (fft.rs:70-72)
Saved(n, i) == [slot |-> i % (n \div 4), from |-> i + n \div 2]

\* the two entries of transformed_xs the iteration assigns  (fft.rs:74-75)
Written(n, i) == <<i, i + n \div 2>>

RECURSIVE CombineLoopNoScratch(_, _, _, _, _, _, _)
\* the combine loop with the scratch buffer never consulted
CombineLoopNoScratch(st, exp, current_exp, start, step, n, i) ==
    IF i >= n \div 2 \/ st.t = <<>> THEN st
    ELSE
      LET index(j)  == start + step * j
          even_term == At(st.t, index(2 * i))
          odd_term  == CMul(At(st.t, index(2 * i + 1)), current_exp)
          t1 == Put(st.t, index(i), CAdd(even_term, odd_term))
          t2 == Put(t1, index(i + n \div 2), CSub(even_term, odd_term))
      IN  CombineLoopNoScratch([t |-> t2, buf |-> st.buf], exp,
                             CMul(current_exp, exp), start, step, n, i + 1)

RECURSIVE CombineLoopStaleScratch(_, _, _, _, _, _, _)
\* the combine loop with the save into the scratch buffer left out of its
\* first iteration
CombineLoopStaleScratch(st, exp, current_exp, start, step, n, i) ==
    IF i >= n \div 2 \/ st.t = <<>> THEN st
    ELSE
      LET index(j)  == start + step * j
          even_term == IF i >= n \div 4
                       THEN At(st.buf, (2 * i) % (n \div 4))
                       ELSE At(st.t, index(2 * i))
          odd_term  == IF i >= n \div 4 /\ i < n \div 2 - 1
                       THEN CMul(At(st.buf, (2 * i + 1) % (n \div 4)), current_exp)
                       ELSE CMul(At(st.t, index(2 * i + 1)), current_exp)
          buf1 == IF i = 0 THEN st.buf
                  ELSE Put(st.buf, i % (n \div 4), At(st.t, index(i + n \div 2)))
          t1 == Put(st.t, index(i), CAdd(even_term, odd_term))
          t2 == Put(t1, index(i + n \div 2), CSub(even_term, odd_term))
      IN  CombineLoopStaleScratch([t |-> t2, buf |-> buf1], exp,
                                  CMul(current_exp, exp), start, step, n, i + 1)

RECURSIVE CombineLoop(_, _, _, _, _, _, _)
\* for i in 0..n/2 { ... }  (fft.rs:54-77); st = [t: transformed_xs, buf: self.buffer].
\* transformed_xs is never empty here; the test on st.t only makes TLC evaluate
\* st at every iteration, not all of them at the end of the loop.
CombineLoop(st, exp, current_exp, start, step, n, i) ==
    IF i >= n \div 2 \/ st.t = <<>> THEN st
    ELSE
      LET index(j)  == start + step * j
          even_term == Fetch(st, EvenSource(n, i), start, step)
          odd_term  == CMul(Fetch(st, OddSource(n, i), start, step), current_exp)
          buf1 == Put(st.buf, Saved(n, i).slot, At(st.t, index(Saved(n, i).from)))
          t1 == Put(st.t, index(Written(n, i)[1]), CAdd(even_term, odd_term))
          t2 == Put(t1, index(Written(n, i)[2]), CSub(even_term, odd_term))
      IN  CombineLoop([t |-> t2, buf |-> buf1], exp,
                      CMul(current_exp, exp), start, step, n, i + 1)

RECURSIVE basic_fft(_, _, _, _, _, _)
\* fft.rs:25-78, for every n whose halving reaches 2 (see Diverges)
basic_fft(in, st, exp, start, step, n) ==
    IF n = 2
    THEN [st EXCEPT !.t =
            Put(Put(st.t, start, CAdd(At(in, start), At(in, start + step))),
                start + step, CSub(At(in, start), At(in, start + step)))]
    ELSE
      LET next_exp == CMul(exp, exp)
          s1 == basic_fft(in, st, next_exp, start, step * 2, n \div 2)
          s2 == basic_fft(in, s1, next_exp, start + step, step * 2, n \div 2)
      IN  CombineLoop(s2, exp, COne, start, step, n, 0)

RECURSIVE Diverges(_)
\* basic_fft without its debug_assert: n = 2 returns, every other n calls
\* itself with n/2 before doing anything else, and n = 0 calls itself with 0
Diverges(n) ==
    IF n = 2 THEN FALSE
    ELSE IF n = 0 THEN TRUE
    ELSE Diverges(n \div 2)

\* the scratch buffer is resized to len / 4 whatever its length
ResizeAlways(buf, len) ==
    IF Len(buf) < len \div 4
    THEN buf \o SubSeq([k \in 1 .. (len \div 4 - Len(buf)) |-> CZero],
                            1, len \div 4 - Len(buf))
    ELSE SubSeq(buf, 1, len \div 4)

\* self.buffer.resize(len / 4, 0) when it is shorter  (fft.rs:87-89)
Resize(buf, len) ==
    IF Len(buf) < len \div 4
    THEN buf \o SubSeq([k \in 1 .. (len \div 4 - Len(buf)) |-> CZero],
                            1, len \div 4 - Len(buf))
    ELSE buf

\* FFTransformer::fft  (fft.rs:82-101).  The call returns a vector ("ok"),
\* panics on a debug_assert (fft.rs:85, fft.rs:35), or, with the assertions
\* compiled out, recurses without end when the halving of len reaches 0.
fft(in, d, buf, dbg) ==
    LET len == Len(in)
    IN  IF dbg /\ ~(len > 1)
        THEN [status |-> "panic", out |-> <<>>, buf |-> buf]
        ELSE IF dbg /\ ~IsPowerOfTwo(len)
        THEN [status |-> "panic", out |-> <<>>, buf |-> Resize(buf, len)]
        ELSE IF Diverges(len)
        THEN [status |-> "stack_overflow", out |-> <<>>, buf |-> Resize(buf, len)]
        ELSE LET st == basic_fft(in,
                                 [t |-> SubSeq([k \in 1 .. len |-> CZero], 1, len),
                                  buf |-> Resize(buf, len)],
                                 FromPolar(len, d), 0, 1, len)
             IN  [status |-> "ok", out |-> st.t, buf |-> st.buf]

\* FFTransformer::normalise  (fft.rs:104-109)
normalise(v) == SubSeq([k \in 1 .. Len(v) |-> CDivReal(v[k], Len(v))], 1, Len(v))

-----------------------------------------------------------------------------
(* The vectors the transformer is called with *)

MaxLen == Pow2(MaxLogN)

Impulse(len, j, v) == SubSeq([k \in 1 .. len |-> IF k = j + 1 THEN v ELSE CZero], 1, len)

\* 1, 2 + zeta, 3 + 2 zeta, ...: every entry different, none real but the first
Ramp(len) ==
    SubSeq([k \in 1 .. len |-> CAdd(CInt(k), CMul(CInt(k - 1), Zeta(1)))], 1, len)

\* the vectors fft is called on: for every power-of-two length two impulses
\* and the ramp, for every other length up to MaxLen a vector of ones
Inputs ==
    UNION { IF IsPowerOfTwo(len) /\ len > 1
            THEN { Impulse(len, 1, COne), Impulse(len, len - 1, Zeta(1)), Ramp(len) }
            ELSE { SubSeq([k \in 1 .. len |-> COne], 1, len) }
          : len \in 0 .. MaxLen }

\* the definition of the discrete Fourier transform, X[k] = sum_n x[n] w^(n k)
RECURSIVE DftSum(_, _, _, _)
DftSum(v, w, k, n) ==
    IF n = Len(v) THEN CZero
    ELSE CAdd(CMul(At(v, n), Zeta(w * n * k)), DftSum(v, w, k, n + 1))

\* w = exp(-+ 2 pi i / N) = zeta^(-+ 2 RingM / N)
Dft(v, d) ==
    LET N == Len(v)
        w == IF d = "FORWARD" THEN 2 * RingM - (2 * RingM) \div N
                              ELSE (2 * RingM) \div N
    IN  SubSeq([k \in 1 .. N |-> DftSum(v, w, k - 1, 0)], 1, N)

-----------------------------------------------------------------------------
(* SpecFft: one FFTransformer, called as fft_is_injective calls it *)

\* no SlidingDft has been constructed
SdftOff ==
    /\ instant_sub = "saturates"
    /\ max_buffer_size = 0
    /\ sample_buf = <<>>
    /\ sample_buf_capacity = 0
    /\ newest_fill_instant = 0
    /\ sdft_latency = 0
    /\ halt_instant = <<>>
    /\ dft = <<>>
    /\ window_start = 0
    /\ returned_at = "off"

\* the engine is not running
EngineIdle ==
    /\ now = 0
    /\ src_kind = "SrcInfo"
    /\ sample_rate = SampleRate
    /\ latency = 0
    /\ sliding_dft = <<>>
    /\ capacity = 0
    /\ ring = <<>>
    /\ sample_at_instant = <<>>
    /\ max_latency = <<>>
    /\ mutex = [sample_prod |-> "free", sample_cons |-> "free", latency_info |-> "free"]
    /\ cpc = "off"
    /\ window_start_sample = 0
    /\ discarded = 0
    /\ ppc = "off"
    /\ data = <<>>
    /\ sample_prod_remaining = 0
    /\ delivered = 0
    /\ deliveries = 0
    /\ quiet_calls = 0
    /\ ticked = FALSE

FftInit ==
    /\ EngineIdle
    /\ SdftOff
    /\ debug_assertions \in BOOLEAN
    /\ buffer = <<>>
    /\ xs \in Inputs
    /\ arg = <<>>
    /\ dir = "NONE"
    /\ transformed_xs = <<>>
    /\ stage = "input"
    /\ calls = 1

\* transformer.fft(&v, d)
Call(v, d, next) ==
    LET r == fft(v, d, buffer, debug_assertions)
    IN  /\ arg' = v
        /\ dir' = d
        /\ buffer' = r.buf
        /\ transformed_xs' = r.out
        /\ stage' = IF r.status = "ok" THEN next ELSE r.status
        /\ UNCHANGED <<debug_assertions, xs, calls, enginevars, sdftvars>>

\* let transformed_xs = transformer.fft(&xs, Direction::FORWARD)   (fft.rs:130)
FftForward ==
    /\ stage = "input"
    /\ Call(xs, "FORWARD", "forward")

\* transformer.fft(&transformed_xs, Direction::BACKWARD)   (fft.rs:131),
\* or the inverse transform of a fresh vector
FftBackward ==
    \/ /\ stage = "forward"
       /\ Call(transformed_xs, "BACKWARD", "backward")
    \/ /\ stage = "input"
       /\ Call(xs, "BACKWARD", "inverse_only")

\* FFTransformer::normalise(&mut xs_reverted)   (fft.rs:132)
Normalise ==
    /\ stage = "backward"
    /\ transformed_xs' = normalise(transformed_xs)
    /\ stage' = "normalised"
    /\ UNCHANGED <<debug_assertions, buffer, xs, arg, dir, calls, enginevars, sdftvars>>

\* the same FFTransformer is used for another vector
NextInput ==
    /\ stage \in {"normalised", "inverse_only", "forward"}
    /\ calls < MaxRounds
    /\ xs' \in Inputs
    /\ calls' = calls + 1
    /\ stage' = "input"
    /\ arg' = <<>>
    /\ dir' = "NONE"
    /\ transformed_xs' = <<>>
    /\ UNCHANGED <<debug_assertions, buffer, enginevars, sdftvars>>

FftNext == FftForward \/ FftBackward \/ Normalise \/ NextInput

SpecFft == FftInit /\ [][FftNext]_vars

-----------------------------------------------------------------------------
(* src/src/realtime_fft.rs, src/src/audio_input.rs: values *)

\* Option<T>
None == <<>>

Some(v) == <<v>>

IsSome(o) == o # <<>>

Unwrap(o) == o[1]

Min(a, b) == IF a < b THEN a ELSE b

\* the window_duration (latency) RealtimeFft::new is given, in ticks
WindowDurations == {2, 3}

\* (sample_rate as f64 * window_duration.as_secs_f64()) as usize  (realtime_fft.rs:139)
ConstructedWindowSize(window_duration) == (sample_rate * window_duration) \div TicksPerSec

\* the number of bins is taken from the window size rounded up to even
BinsRoundedUp(window_duration) == (ConstructedWindowSize(window_duration) + 1) \div 2 + 1

\* (window_size / 2) + 1 bins  (realtime_fft.rs:145-148)
Bins(window_duration) == ConstructedWindowSize(window_duration) \div 2 + 1

\* dft_src.init(window_size * 2)  (realtime_fft.rs:141); the SrcInfo callback is
\* taken to be handed the same number as its sample_buffer_size
SampleBufferSize == ConstructedWindowSize(latency) * 2

\* (self.sliding_dft.borrow().len() - 1) * 2  (realtime_fft.rs:157)
WindowSize == (Len(sliding_dft) - 1) * 2

\* the samples are taken off the back, the newest first
DiscardNewest(buf, n) == SubSeq(buf, 1, Len(buf) - Min(n, Len(buf)))

\* ringbuf Consumer::discard(n): removes min(n, len) samples from the front
Discard(buf, n) == SubSeq(buf, Min(n, Len(buf)) + 1, Len(buf))

\* ringbuf Producer::push_slice: appends the elements that fit, drops the rest
PushSliceOf(buf, cap, slice) == buf \o SubSeq(slice, 1, Min(Len(slice), cap - Len(buf)))

\* the new buffer is returned without the old one moved into it
reallocate_ring_buf_empty(buf, size) == <<>>

\* reallocate_ring_buf: RingBuffer::new(size), then move_from(consumer, None),
\* which moves what fits, oldest first  (realtime_fft.rs:110-117, audio_input.rs:127-134)
reallocate_ring_buf(buf, size) == SubSeq(buf, 1, Min(Len(buf), size))

\* the duration is converted by rounding to the nearest whole sample
SamplesInRounded(duration) ==
    (2 * duration * sample_rate + TicksPerSec) \div (2 * TicksPerSec)

\* ((sample_instant - window_start_instant) * sample_rate).as_secs()
\* (realtime_fft.rs:178-179): whole seconds of Duration * u32, i.e. truncation
SamplesIn(duration) == (duration * sample_rate) \div TicksPerSec

\* an estimate is used without looking whether it is there
WindowStartUnwrap(sai, ml, t) ==
    IF ~IsSome(sai) \/ ~IsSome(ml)
    THEN [kind |-> "panic", wss |-> 0]
    ELSE [kind |-> "ok", wss |-> 0]

\* the match without its starvation check
WindowStartUnchecked(sai, ml, t) ==
    IF ~IsSome(sai) \/ ~IsSome(ml)
    THEN [kind |-> "none", wss |-> 0]
    ELSE LET sample_at == Unwrap(sai)[1]
             sample_instant == Unwrap(sai)[2]
             window_start_instant == (t - Unwrap(ml)) - latency
             behind == SamplesIn(sample_instant - window_start_instant)
         IN  [kind |-> "ok",
              wss |-> IF sample_at >= behind THEN sample_at - behind ELSE 0]

\* the match of update()  (realtime_fft.rs:162-187): the tracker's two options,
\* the starvation check and the start sample, for the clock reading t
WindowStart(sai, ml, t) ==
    IF ~IsSome(sai) \/ ~IsSome(ml)
    THEN [kind |-> "none", wss |-> 0]
    ELSE LET sample_at == Unwrap(sai)[1]
             sample_instant == Unwrap(sai)[2]
             window_end_instant == t - Unwrap(ml)
             window_start_instant == window_end_instant - latency
             behind == SamplesIn(sample_instant - window_start_instant)
         IN  IF window_end_instant > sample_instant
             THEN [kind |-> "starved", wss |-> 0]
             ELSE [kind |-> "ok",
                   wss |-> IF sample_at >= behind THEN sample_at - behind ELSE 0]

\* the recorded count is left as it was
SubtractStartOmitted(sai, wss) == sai

\* the recorded count is set back to 0
SubtractStartReset(sai, wss) == Some(<<0, Unwrap(sai)[2]>>)

\* the subtraction also sets the recorded instant back to the clock's origin
SubtractStartRestamped(sai, wss) == Some(<<Unwrap(sai)[1] - wss, 0>>)

\* *sample_at -= window_start_sample  (realtime_fft.rs:183)
SubtractStart(sai, wss) == Some(<<Unwrap(sai)[1] - wss, Unwrap(sai)[2]>>)

\* the comparison is made with the capacity, not the occupied length
InsufficientVsCapacity(window_size, len) == window_size > capacity

\* a buffer holding exactly one window counts as too short
InsufficientOrEqual(window_size, len) == window_size >= len

\* window_size > sample_cons.len()  (realtime_fft.rs:220)
Insufficient(window_size, len) == window_size > len

\* &full_buf[0..window_size]  (realtime_fft.rs:228-229)
Window(full_buf, window_size) == SubSeq(full_buf, 1, window_size)

\* realfft's forward transform of a real window of length N (plan_fft_forward,
\* process; realtime_fft.rs:231-241): bins 0 .. N/2 of the unnormalised DFT
RECURSIVE RealDftSum(_, _, _, _)
RealDftSum(window, w, k, n) ==
    IF n = Len(window) THEN CZero
    ELSE CAdd(CScale(At(window, n), Zeta(w * n * k)),
              RealDftSum(window, w, k, n + 1))

RealFft(window) ==
    LET N == Len(window)
        w == 2 * RingM - (2 * RingM) \div N
    IN  SubSeq([k \in 1 .. N \div 2 + 1 |-> RealDftSum(window, w, k - 1, 0)],
               1, N \div 2 + 1)

\* vec![Complex::new(0.0, 0.0); (window_size / 2) + 1]  (realtime_fft.rs:145-148)
ZeroSpectrum(window_duration) ==
    SubSeq([k \in 1 .. Bins(window_duration) |-> CZero], 1, Bins(window_duration))

-----------------------------------------------------------------------------
(* Spec: the consumer loop and the audio callback, interleaved at the points  *)
(* where a thread takes a mutex or touches the ring buffer                    *)

\* RealtimeFft::new and the source's init  (realtime_fft.rs:136-152, 51-66;
\* audio_input.rs:54-60)
Init ==
    /\ debug_assertions = FALSE
    /\ buffer = <<>>
    /\ xs = <<>>
    /\ arg = <<>>
    /\ dir = "NONE"
    /\ transformed_xs = <<>>
    /\ stage = "off"
    /\ calls = 0
    /\ now = 0
    /\ src_kind \in {"SrcInfo", "InputStream"}
    /\ sample_rate = SampleRate
    /\ latency \in WindowDurations
    /\ sliding_dft = ZeroSpectrum(latency)
    /\ capacity = ConstructedWindowSize(latency) * 2
    /\ ring = <<>>
    /\ sample_at_instant = None
    /\ max_latency = None
    /\ mutex = [sample_prod |-> "free", sample_cons |-> "free", latency_info |-> "free"]
    /\ cpc = "idle"
    /\ window_start_sample = 0
    /\ discarded = 0
    /\ ppc = "idle"
    /\ data = <<>>
    /\ sample_prod_remaining = 0
    /\ delivered = 0
    /\ deliveries = 0
    /\ quiet_calls = 0
    /\ ticked = FALSE
    /\ SdftOff

\* time passes
Tick ==
    /\ now < MaxTime
    /\ now' = now + 1
    /\ ticked' = (quiet_calls > 0)
    /\ UNCHANGED <<fftvars, sdftvars, cfgvars, sliding_dft, ringvars, trackervars, mutex,
                   consvars, prodvars, quiet_calls>>

\* ---- consumer thread: RealtimeFft::update

\* update() is called and takes the tracker's mutex:
\* latency_info_ref.lock().unwrap()  (realtime_fft.rs:157-162)
UpdateLock ==
    /\ cpc = "idle"
    /\ mutex.latency_info = "free"
    /\ mutex' = [mutex EXCEPT !.latency_info = "consumer"]
    /\ cpc' = "match"
    /\ quiet_calls' = Min(quiet_calls + 1, 2)
    /\ ticked' = IF quiet_calls = 0 THEN FALSE ELSE ticked
    /\ UNCHANGED <<fftvars, sdftvars, now, cfgvars, sliding_dft, ringvars, trackervars,
                   window_start_sample, discarded, prodvars>>

\* the tracker's guard is kept until update() returns, across process_fft
UpdateMatchKeepsLock ==
    /\ cpc = "match"
    /\ LET r == WindowStart(sample_at_instant, max_latency, now)
       IN  /\ cpc' = CASE r.kind = "ok" -> "process"
                       [] r.kind = "panic" -> "panicked"
                       [] OTHER -> "idle"
           /\ window_start_sample' = r.wss
           /\ sample_at_instant' =
                 IF r.kind = "ok"
                 THEN SubtractStart(sample_at_instant, r.wss)
                 ELSE sample_at_instant
    /\ mutex' = [mutex EXCEPT !.latency_info =
                    IF cpc' = "process" THEN "consumer" ELSE "free"]
    /\ discarded' = 0
    /\ UNCHANGED <<fftvars, sdftvars, now, cfgvars, sliding_dft, ringvars, max_latency,
                   prodvars, quiet_calls, ticked>>

\* the match on the tracker, under its mutex, which the end of the statement
\* releases  (realtime_fft.rs:162-187)
UpdateMatch ==
    /\ cpc = "match"
    /\ LET r == WindowStart(sample_at_instant, max_latency, now)
       IN  /\ cpc' = CASE r.kind = "ok" -> "process"
                       [] r.kind = "panic" -> "panicked"
                       [] OTHER -> "idle"
           /\ window_start_sample' = r.wss
           /\ sample_at_instant' =
                 IF r.kind = "ok"
                 THEN SubtractStart(sample_at_instant, r.wss)
                 ELSE sample_at_instant
    /\ mutex' = [mutex EXCEPT !.latency_info = "free"]
    /\ discarded' = 0
    /\ UNCHANGED <<fftvars, sdftvars, now, cfgvars, sliding_dft, ringvars, max_latency,
                   prodvars, quiet_calls, ticked>>

\* process_fft takes the consumer half's mutex and discards
\* (realtime_fft.rs:205-217)
ProcessDiscard ==
    /\ cpc = "process"
    /\ mutex.sample_cons = "free"
    /\ mutex' = [mutex EXCEPT !.sample_cons = "consumer"]
    /\ ring' = Discard(ring, window_start_sample)
    /\ discarded' = Len(ring) - Len(ring')
    /\ cpc' = "check"
    /\ UNCHANGED <<fftvars, sdftvars, now, cfgvars, sliding_dft, capacity, trackervars,
                   window_start_sample, prodvars, quiet_calls, ticked>>

\* if window_size > sample_cons.len() { return; }  (realtime_fft.rs:219-222);
\* otherwise the transform starts, the mutex still held
ProcessCheck ==
    /\ cpc = "check"
    /\ IF Insufficient(WindowSize, Len(ring))
       THEN /\ cpc' = "idle"
            /\ mutex' = [mutex EXCEPT !.sample_cons = "free"]
            /\ window_start_sample' = 0
            /\ discarded' = 0
       ELSE /\ cpc' = "transform"
            /\ UNCHANGED <<mutex, window_start_sample, discarded>>
    /\ UNCHANGED <<fftvars, sdftvars, now, cfgvars, sliding_dft, ringvars, trackervars,
                   prodvars, quiet_calls, ticked>>

\* sample_cons.access(|buf1, buf2| { ... process ... })  (realtime_fft.rs:224-243).
\* The closure runs with the consumer half locked, so the front of the buffer
\* is what it was when the closure copied it; slicing a shorter buffer panics.
ProcessTransform ==
    /\ cpc = "transform"
    /\ IF Len(ring) >= WindowSize
       THEN /\ sliding_dft' = RealFft(Window(ring, WindowSize))
            /\ cpc' = "idle"
            /\ mutex' = [mutex EXCEPT !.sample_cons = "free"]
       ELSE /\ cpc' = "panicked"
            /\ UNCHANGED <<sliding_dft, mutex>>
    /\ window_start_sample' = 0
    /\ discarded' = 0
    /\ UNCHANGED <<fftvars, sdftvars, now, cfgvars, ringvars, trackervars, prodvars,
                   quiet_calls, ticked>>

\* ---- producer thread: the audio callback
\* SrcInfo::push_callback_data (realtime_fft.rs:69-96) or the closure of
\* InputStream::init (audio_input.rs:84-100)

\* the callback is entered with a slice of new samples and takes the producer
\* half's mutex  (realtime_fft.rs:70, audio_input.rs:85)
PushBegin ==
    /\ ppc = "idle"
    /\ mutex.sample_prod = "free"
    /\ deliveries < MaxDeliveries
    /\ deliveries' = deliveries + 1
    /\ \E n \in {1, MaxChunk} :
          /\ data' = SubSeq([k \in 1 .. n |-> delivered + k], 1, n)
          /\ delivered' = delivered + n
    /\ mutex' = [mutex EXCEPT !.sample_prod = "producer"]
    /\ ppc' = "grow"
    /\ quiet_calls' = 0
    /\ UNCHANGED <<fftvars, sdftvars, now, cfgvars, sliding_dft, ringvars, trackervars,
                   consvars, sample_prod_remaining, ticked>>

\* the test is made against the free space
NeedsGrowFreeSpace == Len(data) > capacity - Len(ring)

\* does the callback reallocate the ring buffer
\* (realtime_fft.rs:73, audio_input.rs:87)
NeedsGrow ==
    IF src_kind = "SrcInfo"
    THEN Len(data) + SampleBufferSize > capacity
    ELSE Len(data) > capacity

\* the size it reallocates to  (realtime_fft.rs:76, audio_input.rs:90)
GrownSize ==
    IF src_kind = "SrcInfo"
    THEN Len(data) + SampleBufferSize
    ELSE Len(data) * 2 + SampleBufferSize

\* the reallocation, which needs the consumer half's mutex
\* (realtime_fft.rs:72-79, audio_input.rs:87-93), and the read of remaining()
\* (realtime_fft.rs:81)
PushGrow ==
    /\ ppc = "grow"
    /\ IF NeedsGrow
       THEN /\ mutex.sample_cons = "free"
            /\ ring' = reallocate_ring_buf(ring, GrownSize)
            /\ capacity' = GrownSize
       ELSE UNCHANGED ringvars
    /\ sample_prod_remaining' =
          IF src_kind = "SrcInfo" THEN capacity' - Len(ring') ELSE 0
    /\ ppc' = "push"
    /\ quiet_calls' = 0
    /\ UNCHANGED <<fftvars, sdftvars, now, cfgvars, sliding_dft, trackervars, mutex,
                   consvars, data, delivered, deliveries, ticked>>

\* does push_callback_data drop earlier samples  (realtime_fft.rs:82)
NeedsDiscard == src_kind = "SrcInfo" /\ Len(data) > sample_prod_remaining

\* the drop of earlier samples, which needs the consumer half's mutex
\* (realtime_fft.rs:82-85), and push_slice  (realtime_fft.rs:86, audio_input.rs:94)
PushSlice ==
    /\ ppc = "push"
    /\ NeedsDiscard => mutex.sample_cons = "free"
    /\ LET kept == IF NeedsDiscard
                   THEN Discard(ring, Len(data) - sample_prod_remaining)
                   ELSE ring
       IN  ring' = PushSliceOf(kept, capacity, data)
    /\ ppc' = "record"
    /\ data' = <<>>
    /\ sample_prod_remaining' = 0
    /\ quiet_calls' = 0
    /\ UNCHANGED <<fftvars, sdftvars, now, cfgvars, sliding_dft, capacity, trackervars, mutex,
                   consvars, delivered, deliveries, ticked>>

\* the first record takes the time since the clock's origin for a latency
RecordedLatencyFromOrigin(sai, t) ==
    Some(t - (IF IsSome(sai) THEN Unwrap(sai)[2] ELSE 0))

\* latency_info.sample_at_instant.map_or(None, |(_, instant)| Some(now - instant))
\* (realtime_fft.rs:92-94, audio_input.rs:98)
RecordedLatency(sai, t) ==
    IF IsSome(sai) THEN Some(t - Unwrap(sai)[2]) ELSE None

\* the tracker's record, under its mutex; the callback then returns and drops
\* its guards  (realtime_fft.rs:89-96, audio_input.rs:96-100)
PushRecord ==
    /\ ppc = "record"
    /\ mutex.latency_info = "free"
    /\ max_latency' = RecordedLatency(sample_at_instant, now)
    /\ sample_at_instant' = Some(<<Len(ring), now>>)
    /\ mutex' = [mutex EXCEPT !.sample_prod = "free"]
    /\ ppc' = "idle"
    /\ quiet_calls' = 0
    /\ UNCHANGED <<fftvars, sdftvars, now, cfgvars, sliding_dft, ringvars, consvars,
                   data, sample_prod_remaining, delivered, deliveries, ticked>>

Next ==
    \/ Tick
    \/ UpdateLock
    \/ UpdateMatch
    \/ ProcessDiscard
    \/ ProcessCheck
    \/ ProcessTransform
    \/ PushBegin
    \/ PushGrow
    \/ PushSlice
    \/ PushRecord

Spec == Init /\ [][Next]_vars

-----------------------------------------------------------------------------
(* SpecSdft: SlidingDft of src/src/sliding_dft.rs.  update() takes &mut self   *)
(* and polls its source, so a call is one step.  A usize is written as its     *)
(* residue of least magnitude modulo 2^64: a negative number n stands for      *)
(* 2^64 + n, the value a wrapping subtraction leaves in a release build.       *)

\* dft_src.max_buffer_size() returns 0 .. MaxBuffer
MaxBuffer == 2
\* update() is followed while SlidingDft.latency is at most MaxHaltLatency ticks
MaxHaltLatency == 4

\* the window_size Duration SlidingDft::new is given, in ticks
SdftWindowDurations == {1, 2, 3}

\* the values of the samples a source delivers; the buffer starts with zeros
SampleValues == {1, 2}

\* (sample_rate as f64 * window_size.as_secs_f64()) as usize  (sliding_dft.rs:36)
SdftWindowSize(window_duration) == (sample_rate * window_duration) \div TicksPerSec

\* sample_buf_size  (sliding_dft.rs:142-144)
sample_buf_size(window_size, max_buf_size) == window_size * 2 + max_buf_size

\* n copies of the sample v
Samples(n, v) == SubSeq([j \in 1 .. n |-> v], 1, n)

\* A DFT bin of a window of window_size samples is a sum of samples times powers
\* of exp(i*omega), omega = 2*PI/window_size; it is written as the tuple of its
\* window_size integer coefficients, coefficient e of a bin b being b[e + 1].
BinZero(window_size) == SubSeq([e \in 1 .. window_size |-> 0], 1, window_size)

\* bin + c * Complex::from_polar(1.0, omega * p)
AddPolar(bin, c, p) ==
    SubSeq([e \in 1 .. Len(bin) |-> IF e = (p % Len(bin)) + 1 THEN bin[e] + c ELSE bin[e]],
           1, Len(bin))

\* bin * Complex::from_polar(1.0, omega * p)
MulPolar(bin, p) ==
    SubSeq([e \in 1 .. Len(bin) |-> bin[((e - 1 - p) % Len(bin)) + 1]], 1, Len(bin))

RECURSIVE SlideBin(_, _, _, _, _)
\* for n in 0..old.len(): dft[k] = dft[k] - old[n] * en + new[n] * en
\* (sliding_dft.rs:114-117)
SlideBin(bin, k, old, new, n) ==
    IF n = Len(old) THEN bin
    ELSE SlideBin(AddPolar(AddPolar(bin, 0 - old[n + 1], k * n), new[n + 1], k * n),
                  k, old, new, n + 1)

\* the DFT step on slices that are in bounds  (sliding_dft.rs:105-120)
Slide(bins, full_buf, window_size, start) ==
    LET old == SubSeq(full_buf, 1, start)
        new == SubSeq(full_buf, window_size + 1, window_size + start)
    IN  SubSeq([k \in 1 .. Len(bins) |->
                   MulPolar(SlideBin(bins[k], k - 1, old, new, 0), (k - 1) * Len(old))],
               1, Len(bins))

\* &full_buf[0..window_start] and &full_buf[window_size..(window_size + window_start)]
\* panic unless 0 <= start <= end <= full_buf.len()  (sliding_dft.rs:105-106)
SlicesInBounds(full_buf, window_size, start) ==
    /\ start >= 0
    /\ start <= Len(full_buf)
    /\ window_size + start <= Len(full_buf)

\* ((newest_fill_instant - window_start).as_secs_f64() * sample_rate as f64) as usize
\* (sliding_dft.rs:81-82); a negative Instant difference has saturated to zero
FillSamples(fill_instant, window_start_instant) ==
    IF fill_instant < window_start_instant THEN 0
    ELSE ((fill_instant - window_start_instant) * sample_rate) \div TicksPerSec

\* window_start + sliding_dft.borrow().len() < self.sample_cons.len()
\* (sliding_dft.rs:91), the sum wrapping as usize
HaltTest(start, window_size, occupied) ==
    start + window_size >= 0 /\ start + window_size < occupied

\* a halt is not remembered
IsHaltedNever(halt) == FALSE

\* else if let Some(instant) = self.halt_instant  (sliding_dft.rs:96)
IsHalted(halt) == IsSome(halt)

\* the ways update() panics
SdftPanics == {"debug_assert", "instant_sub", "overflow", "slice_index"}

\* SlidingDft::update  (sliding_dft.rs:62-125) when fill_buffer pushes k samples
\* of value v and records the instant t: the fields it leaves and where it ends
update(k, v, t) ==
    LET window_size == Len(dft)
        size == sample_buf_size(window_size, max_buffer_size)
        grows == sample_buf_capacity < size
        cap == IF grows THEN size ELSE sample_buf_capacity
        moved == IF grows THEN reallocate_ring_buf(sample_buf, size) ELSE sample_buf
        filled == PushSliceOf(moved, cap, Samples(k, v))
        window_start_instant == now - sdft_latency
        behind == FillSamples(t, window_start_instant)
        start == window_size - behind
        early == [buf |-> filled, cap |-> cap, fill |-> t, latency |-> sdft_latency,
                  halt |-> halt_instant, bins |-> dft, start |-> window_start,
                  at |-> "none"]
    IN  IF debug_assertions /\ ~(window_start_instant < t)
        THEN [early EXCEPT !.at = "debug_assert"]
        ELSE IF t < window_start_instant /\ instant_sub = "panics"
        THEN [early EXCEPT !.at = "instant_sub"]
        ELSE IF debug_assertions /\ start < 0
        THEN [early EXCEPT !.at = "overflow"]
        ELSE IF debug_assertions /\ ~(start > 0 /\ start < window_size)
        THEN [early EXCEPT !.at = "debug_assert", !.start = start]
        ELSE IF HaltTest(start, window_size, Len(filled)) /\ halt_instant = None
        THEN [early EXCEPT !.at = "halt_set", !.start = start, !.halt = Some(now)]
        ELSE IF IsHalted(halt_instant)
        THEN [early EXCEPT !.at = "halt_latency", !.start = start,
                           !.latency = sdft_latency + (now - Unwrap(halt_instant))]
        ELSE IF ~SlicesInBounds(filled, window_size, start)
        THEN [early EXCEPT !.at = "slice_index", !.start = start]
        ELSE [early EXCEPT !.at = "dft_step", !.start = start,
                           !.bins = Slide(dft, filled, window_size, start),
                           !.buf = Discard(filled, start)]

\* SlidingDft::new(dft_src, window_size)  (sliding_dft.rs:32-58): the buffer is
\* filled to its capacity with zeros, the bins are zero
SdftInit ==
    /\ EngineIdle
    /\ debug_assertions \in BOOLEAN
    /\ buffer = <<>>
    /\ xs = <<>>
    /\ arg = <<>>
    /\ dir = "NONE"
    /\ transformed_xs = <<>>
    /\ stage = "off"
    /\ calls = 0
    /\ instant_sub \in {"saturates", "panics"}
    /\ max_buffer_size \in 0 .. MaxBuffer
    /\ \E d \in SdftWindowDurations :
          LET window_size == SdftWindowSize(d)
              sample_buffer_size == sample_buf_size(window_size, max_buffer_size)
          IN  /\ sample_buf_capacity = sample_buffer_size
              /\ sample_buf = Samples(sample_buffer_size, 0)
              /\ dft = SubSeq([k \in 1 .. window_size |-> BinZero(window_size)],
                              1, window_size)
    /\ newest_fill_instant = now
    /\ sdft_latency = 0
    /\ halt_instant = None
    /\ window_start = 0
    /\ returned_at = "new"

\* the source comes to know the size of its buffers: max_buffer_size() returns more
\* (sliding_dft.rs:16-18, 37-38)
SourceGrows ==
    /\ returned_at \notin SdftPanics
    /\ \E size \in max_buffer_size + 1 .. MaxBuffer : max_buffer_size' = size
    /\ UNCHANGED <<fftvars, enginevars, instant_sub, sample_buf, sample_buf_capacity,
                   newest_fill_instant, sdft_latency, halt_instant, dft, window_start,
                   returned_at>>

\* one call of SlidingDft::update  (sliding_dft.rs:62-125); fill_buffer pushes up
\* to max_buffer_size samples into the free space and records when it got them
SdftUpdate ==
    /\ returned_at \notin SdftPanics
    /\ \E k \in 0 .. max_buffer_size, v \in SampleValues, t \in newest_fill_instant .. now :
          LET r == update(k, v, t)
          IN  /\ k = 0 => v = 1
              /\ r.latency <= MaxHaltLatency
              /\ sample_buf' = r.buf
              /\ sample_buf_capacity' = r.cap
              /\ newest_fill_instant' = r.fill
              /\ sdft_latency' = r.latency
              /\ halt_instant' = r.halt
              /\ dft' = r.bins
              /\ window_start' = r.start
              /\ returned_at' = r.at
    /\ UNCHANGED <<fftvars, enginevars, instant_sub, max_buffer_size>>

SdftNext == Tick \/ SourceGrows \/ SdftUpdate

SpecSdft == SdftInit /\ [][SdftNext]_vars

-----------------------------------------------------------------------------
(* Claims about the FFTransformer, checked under SpecFft *)

ValidLen(n) == n > 1 /\ IsPowerOfTwo(n)

\* C1: fft FORWARD, then fft BACKWARD on the same FFTransformer, then
\* normalise, gives back the vector the round trip started from, element by
\* element, for every power-of-two length >= 2
C1_RoundTrip ==
    (stage = "normalised" /\ ValidLen(Len(xs))) => transformed_xs = xs

\* a round trip of a full-length vector with no zero entry has completed on a
\* transformer whose scratch buffer an earlier round trip has filled
C1_Witness ==
    /\ stage = "normalised"
    /\ calls = 2
    /\ xs = Ramp(MaxLen)
    /\ Len(buffer) = MaxLen \div 4

\* C2: a successful fft returns, in natural index order, the unnormalised sum
\* X[k] = sum_n x[n] w^(n k) with w = exp(-2 pi i/N) for FORWARD and
\* w = exp(+2 pi i/N) for BACKWARD
C2_IsDft ==
    (stage \in {"forward", "backward", "inverse_only"} /\ ValidLen(Len(arg)))
        => transformed_xs = Dft(arg, dir)

\* an inverse transform of a full-length vector with no zero entry has returned
C2_Witness ==
    /\ stage = "inverse_only"
    /\ arg = Ramp(MaxLen)
    /\ transformed_xs # arg

\* C3: a call of fft with a length that is not a power of two, or is <= 1,
\* ends with an explicit contract violation (the panic of a debug_assert)
C3_ContractViolation ==
    (dir # "NONE" /\ ~ValidLen(Len(arg))) => stage = "panic"

-----------------------------------------------------------------------------
(* Claims about the engine, checked under Spec *)

\* the consumer thread returns from update()
UpdateReturns == cpc # "idle" /\ cpc' = "idle"

\* the consumer thread finishes the transform of process_fft
TransformEnds == cpc = "transform" /\ cpc' # "transform"

\* C4: as long as the producer has delivered nothing, update() calls leave
\* every bin of the Spectrum as it was at construction, and none panics
C4_StarvationIdempotent ==
    deliveries = 0 => (sliding_dft = ZeroSpectrum(latency) /\ cpc # "panicked")

\* two update() calls have returned, at different clock readings, with nothing
\* delivered
C4_Witness ==
    /\ deliveries = 0
    /\ quiet_calls = 2
    /\ cpc = "idle"
    /\ now > 0

\* C5: the Spectrum is written only by the transform of process_fft, which
\* runs only with at least WindowSize samples in the ring buffer after the
\* discard and writes the transform of exactly the first WindowSize of them;
\* every other step of update() leaves the Spectrum as it was
C5_FullWindowOrUntouched ==
    [][ /\ TransformEnds =>
              /\ cpc' = "idle"
              /\ Len(ring) >= WindowSize
              /\ sliding_dft' = RealFft(SubSeq(ring, 1, WindowSize))
        /\ ~TransformEnds => sliding_dft' = sliding_dft ]_vars

\* update() has recomputed the Spectrum from a window that does not begin at
\* the first sample delivered
C5_Witness ==
    /\ cpc = "idle"
    /\ sliding_dft # ZeroSpectrum(latency)
    /\ sliding_dft # RealFft(SubSeq([k \in 1 .. WindowSize |-> k], 1, WindowSize))

\* count - behind, clamped to 0
ClampedSub(count, behind) == IF count >= behind THEN count - behind ELSE 0

\* the time from window_start_instant = now - max_latency - window_duration
\* to the recorded instant, in ticks
TicksBehind == Unwrap(sample_at_instant)[2] - (now - Unwrap(max_latency) - latency)

\* C6 as stated: window_start_sample is the recorded count minus the samples
\* between window_start_instant and the recorded instant rounded to the nearest
\* whole sample, clamped to 0, and a successful recompute has discarded exactly
\* that many samples
C6_RoundedWindowStart ==
    [][ /\ (cpc = "match" /\ cpc' = "process") =>
              window_start_sample' =
                 ClampedSub(Unwrap(sample_at_instant)[1],
                            (2 * TicksBehind * sample_rate + TicksPerSec)
                               \div (2 * TicksPerSec))
        /\ (TransformEnds /\ cpc' = "idle") => discarded = window_start_sample ]_vars

\* C6 amended: the samples between the two instants are truncated to whole
\* samples, not rounded to the nearest; and the discard of process_fft is asked
\* for window_start_sample samples and removes that many from the front of the
\* ring buffer, or all of them when the buffer holds fewer
C6_TruncatedWindowStart ==
    [][ /\ (cpc = "match" /\ cpc' = "process") =>
              window_start_sample' =
                 ClampedSub(Unwrap(sample_at_instant)[1],
                            (TicksBehind * sample_rate) \div TicksPerSec)
        /\ (cpc = "process" /\ cpc' = "check") =>
              /\ discarded' = Min(window_start_sample, Len(ring))
              /\ ring' = SubSeq(ring, discarded' + 1, Len(ring)) ]_vars

\* a recompute has succeeded after discarding a positive window_start_sample
C6_Witness ==
    /\ cpc = "transform"
    /\ window_start_sample > 0
    /\ discarded = window_start_sample

\* C7 as stated: an update() that follows another with no step of the producer
\* since the first one began leaves the Spectrum as the first one left it,
\* whether or not the clock has advanced
C7_RepeatIdentical ==
    [][ (UpdateReturns /\ quiet_calls = 2) => sliding_dft' = sliding_dft ]_vars

\* C7 amended: an update() that follows another with no step of the producer
\* since the first one began leaves the Spectrum as the first one left it,
\* provided the clock has not advanced since the first one began or, more
\* generally, the second call's window_start_sample is 0
C7_RepeatIdenticalSameWindow ==
    [][ (UpdateReturns /\ quiet_calls = 2 /\ (~ticked \/ window_start_sample = 0))
           => sliding_dft' = sliding_dft ]_vars

\* the second of two such calls is at the transform, the first one having
\* written a Spectrum
C7_Witness ==
    /\ quiet_calls = 2
    /\ ~ticked
    /\ cpc = "transform"
    /\ sliding_dft # ZeroSpectrum(latency)

\* C8: buffer and tracker are one resource under one lock, so that no
\* push-and-record takes place (comes to its record) between update()'s
\* reading of the tracker and its discard
C8_NoRecordBetweenReadAndDiscard ==
    [][ cpc = "process" => ~(ppc = "record" /\ ppc' = "idle") ]_vars

\* C9: while the transform runs the consumer holds no mutex
C9_NoLockDuringFft ==
    cpc = "transform" =>
       /\ mutex.sample_cons # "consumer"
       /\ mutex.latency_info # "consumer"
       /\ mutex.sample_prod # "consumer"

\* the callback is at a lock() whose mutex the consumer holds
ProducerWaits ==
    \/ ppc = "grow" /\ NeedsGrow /\ mutex.sample_cons = "consumer"
    \/ ppc = "push" /\ NeedsDiscard /\ mutex.sample_cons = "consumer"
    \/ ppc = "record" /\ mutex.latency_info = "consumer"

\* C10: the callback never waits for a mutex that the consumer holds
C10_ProducerNeverBlocks == ~ProducerWaits

\* the callback's push_slice step
PushSliceStep == ppc = "push" /\ ppc' = "record"

\* C11: after the push of a delivery the newest Len(data) samples of the ring
\* buffer are exactly data, in order: what a delivery that does not fit costs
\* is the oldest unread samples, never a sample of the delivery
C11_NewestAreData ==
    [][ PushSliceStep =>
          /\ Len(ring') >= Len(data)
          /\ SubSeq(ring', Len(ring') - Len(data) + 1, Len(ring')) = data ]_vars

\* the callback's step past the capacity test, with or without a reallocation
PushGrowStep == ppc = "grow" /\ ppc' = "push"

\* no sample is in s twice
NoDuplicates(s) == \A i, j \in 1 .. Len(s) : s[i] = s[j] => i = j

\* C12: a reallocation of the ring buffer leaves the unread samples as they
\* were, in number, order and content, in a buffer that has room for them;
\* the push that follows puts samples of the delivery behind unread samples
\* of before, and no sample is ever in the buffer twice
C12_GrowthKeepsUnread ==
    [][ /\ (PushGrowStep /\ capacity' # capacity) =>
              /\ capacity' >= Len(ring)
              /\ ring' = ring
        /\ PushSliceStep =>
              \E k \in 0 .. Len(ring), m \in 0 .. Len(data) :
                 ring' = SubSeq(ring, k + 1, Len(ring)) \o SubSeq(data, 1, m)
        /\ NoDuplicates(ring') ]_vars

\* the input callback has just reallocated a buffer that held unread samples
C12_Witness ==
    /\ src_kind = "InputStream"
    /\ ppc = "push"
    /\ Len(data) > SampleBufferSize
    /\ capacity = Len(data) * 2 + SampleBufferSize
    /\ Len(ring) > 0

\* C13 as stated: the callback reallocates exactly when the delivery is longer
\* than the free space of the ring buffer
C13_GrowsIffNoRoom ==
    [][ PushGrowStep =>
          (capacity' # capacity <=> Len(data) > capacity - Len(ring)) ]_vars

\* C13 amended: push_callback_data reallocates exactly when data.len() plus
\* sample_buffer_size is more than the capacity, to that sum; the input
\* callback exactly when data.len() is more than the capacity, to twice
\* data.len() plus sample_buffer_size; the occupied length plays no part
C13_GrowsIffOverCapacity ==
    [][ PushGrowStep =>
          IF src_kind = "SrcInfo"
          THEN IF Len(data) + SampleBufferSize > capacity
               THEN capacity' = Len(data) + SampleBufferSize
               ELSE capacity' = capacity
          ELSE IF Len(data) > capacity
               THEN capacity' = Len(data) * 2 + SampleBufferSize
               ELSE capacity' = capacity ]_vars

\* push_callback_data has reallocated an empty buffer in which the delivery
\* had room
C13_Witness ==
    /\ src_kind = "SrcInfo"
    /\ ppc = "push"
    /\ ring = <<>>
    /\ Len(data) <= SampleBufferSize
    /\ capacity = Len(data) + SampleBufferSize

\* C14: a discard of k <= len() samples by process_fft takes exactly k off
\* the occupied length and leaves sample k + i of before at index i; and from
\* then to the end of the access of that update() the front of the buffer
\* stays what the discard left, the callback only appending behind it
C14_DiscardExact ==
    [][ /\ (cpc = "process" /\ cpc' = "check" /\ window_start_sample <= Len(ring)) =>
              /\ Len(ring') = Len(ring) - window_start_sample
              /\ \A i \in 1 .. Len(ring') : ring'[i] = ring[i + window_start_sample]
        /\ (cpc \in {"check", "transform"}) =>
              /\ Len(ring') >= Len(ring)
              /\ SubSeq(ring', 1, Len(ring)) = ring ]_vars

\* process_fft has discarded the first samples of the stream, not all of the
\* unread ones, and is at the access, with a callback between its push and
\* its record
C14_Witness ==
    /\ cpc = "transform"
    /\ discarded > 0
    /\ discarded = window_start_sample
    /\ ring[1] = discarded + 1
    /\ ppc = "record"

\* deliveries whose record has been made
Recorded == IF ppc = "idle" THEN deliveries ELSE deliveries - 1

\* the callback's record step
RecordStep == ppc = "record" /\ ppc' = "idle"

\* the match of update() finds both options of the tracker
HasEstimate == IsSome(sample_at_instant) /\ IsSome(max_latency)

\* update() leaves its match with a start sample
MatchGivesStart == cpc = "match" /\ cpc' = "process"

\* what C15 says of the estimate's presence and of the record
EstimateFromRecords ==
    /\ HasEstimate' <=> Recorded' >= 2
    /\ MatchGivesStart => Recorded >= 2
    /\ RecordStep =>
          /\ sample_at_instant' = Some(<<Len(ring), now>>)
          /\ Recorded >= 1 => max_latency' = Some(now - Unwrap(sample_at_instant)[2])

\* C15 as stated: no estimate before the second record, one ever after; its
\* max_latency is the time between the two most recent records and its count
\* and instant are those the most recent record stored
C15_EstimateIsLastRecord ==
    [][ /\ EstimateFromRecords
        /\ ~RecordStep => (sample_at_instant' = sample_at_instant
                           /\ max_latency' = max_latency) ]_vars

\* C15 amended: ... its instant is the one the most recent record stored, and
\* its count is the one that record stored less the window_start_sample of
\* every update() that has found an estimate since
C15_EstimateIsLastRecordLessStarts ==
    [][ /\ EstimateFromRecords
        /\ ~RecordStep =>
              /\ max_latency' = max_latency
              /\ IsSome(sample_at_instant') <=> IsSome(sample_at_instant)
              /\ IsSome(sample_at_instant) =>
                    /\ Unwrap(sample_at_instant')[2] = Unwrap(sample_at_instant)[2]
                    /\ Unwrap(sample_at_instant')[1] =
                          Unwrap(sample_at_instant)[1]
                             - (IF MatchGivesStart THEN window_start_sample' ELSE 0) ]_vars

\* after a third record, made some time after the second, update() has taken
\* a positive start sample off the count
C15_Witness ==
    /\ Recorded >= 3
    /\ Unwrap(max_latency) > 0
    /\ cpc = "process"
    /\ window_start_sample > 0
    /\ Unwrap(sample_at_instant)[1] < Len(ring)

\* C16: the count a delivery records is the occupied length of the ring buffer
\* as its push left it, whatever the consumer does meanwhile: the record stores
\* the occupied length, and no step between the push and the record changes it
C16_CountIsLengthAfterPush ==
    [][ /\ RecordStep => Unwrap(sample_at_instant')[1] = Len(ring)
        /\ (ppc = "record" /\ ppc' = "record") => Len(ring') = Len(ring) ]_vars

\* C17: the capacity of the ring buffer never decreases, and once the callback
\* is past its capacity test the capacity is at least twice WindowSize plus
\* the length of the delivery; together: the capacity is always at least
\* twice WindowSize plus the longest delivery so far
C17_CapacityCoversChunks ==
    [][ /\ capacity' >= capacity
        /\ PushGrowStep => capacity' >= 2 * WindowSize + Len(data) ]_vars

-----------------------------------------------------------------------------
(* SpecNew: RealtimeFft::new on a range of sample rates and window durations *)

\* a source with some sample rate, and a window duration, before new is called
NewInit ==
    /\ debug_assertions = FALSE
    /\ buffer = <<>>
    /\ xs = <<>>
    /\ arg = <<>>
    /\ dir = "NONE"
    /\ transformed_xs = <<>>
    /\ stage = "off"
    /\ calls = 0
    /\ now = 0
    /\ src_kind \in {"SrcInfo", "InputStream"}
    /\ sample_rate \in 1 .. MaxRate
    /\ latency \in 1 .. MaxDuration
    /\ sliding_dft = <<>>
    /\ capacity = 0
    /\ ring = <<>>
    /\ sample_at_instant = None
    /\ max_latency = None
    /\ mutex = [sample_prod |-> "free", sample_cons |-> "free", latency_info |-> "free"]
    /\ cpc = "off"
    /\ window_start_sample = 0
    /\ discarded = 0
    /\ ppc = "off"
    /\ data = <<>>
    /\ sample_prod_remaining = 0
    /\ delivered = 0
    /\ deliveries = 0
    /\ quiet_calls = 0
    /\ ticked = FALSE
    /\ SdftOff

\* RealtimeFft::new(dft_src, window_duration)  (realtime_fft.rs:136-152):
\* dft_src.init(window_size * 2) allocates the ring buffer, the Spectrum gets
\* window_size / 2 + 1 zero bins
New ==
    /\ cpc = "off"
    /\ stage = "off"
    /\ capacity' = ConstructedWindowSize(latency) * 2
    /\ sliding_dft' = ZeroSpectrum(latency)
    /\ cpc' = "idle"
    /\ ppc' = "idle"
    /\ UNCHANGED <<fftvars, sdftvars, now, cfgvars, ring, trackervars, mutex,
                   window_start_sample, discarded, data, sample_prod_remaining,
                   delivered, deliveries, quiet_calls, ticked>>

SpecNew == NewInit /\ [][New]_vars

-----------------------------------------------------------------------------
(* Claims about RealtimeFft::new, checked under SpecNew *)

\* the engine has been constructed by New
Constructed == cpc = "idle" /\ stage = "off"

-----------------------------------------------------------------------------
(* Claims about the scratch buffer of the FFTransformer, checked under SpecFft *)

\* the last call as a new FFTransformer, whose buffer is empty, would answer it
FreshCall == fft(arg, dir, <<>>, debug_assertions)

\* C19: whatever calls were made on the FFTransformer before, a call of fft
\* ends as the same call on a new FFTransformer ends, and when it returns it
\* returns the same vector
C19_ScratchHistoryIrrelevant ==
    /\ stage \in {"forward", "backward", "inverse_only"} =>
          /\ FreshCall.status = "ok"
          /\ transformed_xs = FreshCall.out
    /\ stage \in {"panic", "stack_overflow"} => FreshCall.status = stage

\* a transform of length 4 has returned on an FFTransformer whose scratch
\* buffer an earlier transform of length 8 left longer and with other contents
\* than a new FFTransformer would have after the same call
C19_Witness ==
    /\ calls = 2
    /\ stage = "forward"
    /\ Len(arg) = 4
    /\ Len(buffer) = 2
    /\ Len(FreshCall.buf) = 1
    /\ buffer[2] # CZero

-----------------------------------------------------------------------------
(* Claims about the recorded sample count, checked under Spec *)

\* the count of LatencyInfo.sample_at_instant
RecordedCount == Unwrap(sample_at_instant)[1]

\* C20 as stated: from one state to the next the recorded count never decreases
C20_CountNeverDecreases ==
    [][ (IsSome(sample_at_instant) /\ IsSome(sample_at_instant'))
            => RecordedCount' >= RecordedCount ]_vars

\* C20: the recorded count is a position in the unread contents of the ring
\* buffer. The callback's record sets it to the number of samples in the
\* buffer at that moment, an update() that computes a window start lowers it
\* by that start (never below 0), nothing else changes it, and it always lies
\* between 0 and the capacity
C20_CountIsBufferPosition ==
    [][ /\ RecordStep => RecordedCount' = Len(ring)
        /\ MatchGivesStart =>
              /\ window_start_sample' <= RecordedCount
              /\ RecordedCount' = RecordedCount - window_start_sample'
        /\ (~RecordStep /\ ~MatchGivesStart) => sample_at_instant' = sample_at_instant
        /\ IsSome(sample_at_instant') =>
              /\ RecordedCount' >= 0
              /\ RecordedCount' <= capacity' ]_vars

\* update() has just lowered the recorded count from the length of the buffer
\* by a window start above 0
C20_Witness ==
    /\ cpc = "process"
    /\ ppc = "idle"
    /\ window_start_sample > 0
    /\ IsSome(sample_at_instant)
    /\ RecordedCount + window_start_sample = Len(ring)

-----------------------------------------------------------------------------
(* Claims about the tracker and the buffer taken together, checked under Spec *)

\* neither thread is inside update() or inside the callback
Quiescent == cpc = "idle" /\ ppc = "idle"

\* C22: whenever neither thread is in the middle of an operation, the count
\* stored in the latency tracker equals the occupied length of the ring buffer
C22_QuiescentCountIsLength ==
    (Quiescent /\ IsSome(sample_at_instant)) => RecordedCount = Len(ring)

-----------------------------------------------------------------------------
(* Claims about the order in which the mutexes are taken, checked under Spec *)

\* update() holds a mutex and is at a step that takes no other: the match, the
\* length check or the transform, whose actions have no guard but cpc
ConsumerRunsWithMutex == cpc \in {"match", "check", "transform"}

\* the consumer holds at most one mutex and never the producer half's; the
\* callback holds the producer half's from its first step to its last and the
\* other two only inside a step; when the callback waits, the consumer is at a
\* step that needs no mutex
LocksInOrder ==
    /\ ~(mutex.latency_info = "consumer" /\ mutex.sample_cons = "consumer")
    /\ mutex.sample_prod # "consumer"
    /\ (ppc \in {"grow", "push", "record"}) <=> (mutex.sample_prod = "producer")
    /\ mutex.latency_info # "producer"
    /\ mutex.sample_cons # "producer"
    /\ cpc = "process" => mutex.latency_info # "consumer"
    /\ ProducerWaits => ConsumerRunsWithMutex

\* C23: the three mutexes cannot deadlock. In every state the mutexes are held
\* as LocksInOrder says, so a thread that waits for a mutex waits for a holder
\* that is running, and the holder gives the mutex back after at most two
\* steps of its own: the tracker's with the step after it took it, the
\* consumer half's with the length check or with the transform that follows it
C23_NoDeadlock ==
    [][ /\ LocksInOrder
        /\ LocksInOrder'
        /\ (mutex.latency_info = "consumer" /\ cpc' # cpc)
              => mutex'.latency_info = "free"
        /\ (mutex.sample_cons = "consumer" /\ cpc' # cpc)
              => \/ mutex'.sample_cons = "free"
                 \/ cpc = "check" /\ cpc' = "transform" ]_vars

\* the callback waits for the consumer half's mutex to drop earlier samples
\* while update() holds it for the transform
C23_Witness ==
    /\ ProducerWaits
    /\ ppc = "push"
    /\ cpc = "transform"
    /\ mutex.sample_prod = "producer"
    /\ mutex.sample_cons = "consumer"

-----------------------------------------------------------------------------
(* Claims about the reads of the combine loop, checked under SpecFft *)

\* a call of fft has returned a vector
Returned == stage \in {"forward", "backward", "inverse_only"}

\* the sizes n >= 4 of the recursion levels of a transform of length len
Levels(len) == {n \in 4 .. len : IsPowerOfTwo(n)}

\* what an entry holds during the combine loop of one level: j >= 0 is entry j
\* of transformed_xs as the two sub-transforms left it (Xe[j/2] for an even j,
\* Xo[(j-1)/2] for an odd j), Overwritten a result of an earlier iteration of
\* the loop, Stale what the scratch buffer held when the loop was entered
Overwritten == 0 - 1

Stale == 0 - 2

RECURSIVE ReadsAreSubTransforms(_, _, _, _)
\* from iteration i on, with the entries of transformed_xs and of the scratch
\* buffer holding what out and buf say, every iteration reads Xe[i] and Xo[i]
ReadsAreSubTransforms(out, buf, n, i) ==
    IF i >= n \div 2 THEN TRUE
    ELSE
      LET held(src) == IF src.in = "buffer" THEN At(buf, src.at) ELSE At(out, src.at)
          buf1 == Put(buf, Saved(n, i).slot, At(out, Saved(n, i).from))
          out1 == Put(Put(out, Written(n, i)[1], Overwritten),
                      Written(n, i)[2], Overwritten)
      IN  /\ held(EvenSource(n, i)) = 2 * i
          /\ held(OddSource(n, i)) = 2 * i + 1
          /\ ReadsAreSubTransforms(out1, buf1, n, i + 1)

\* the combine loop of a level of size n, entered after its two sub-transforms
\* with a scratch buffer of n/4 stale entries
LevelReadsAreSubTransforms(n) ==
    ReadsAreSubTransforms(SubSeq([j \in 1 .. n |-> j - 1], 1, n),
                          SubSeq([q \in 1 .. n \div 4 |-> Stale], 1, n \div 4),
                          n, 0)

\* C24: in a transform of a power-of-two length that has returned, at every
\* recursion level of size n >= 4 and at every iteration i of its combine loop
\* the even and the odd term read are Xe[i] and Xo[i] of the two
\* sub-transforms: not an entry an earlier iteration overwrote, not a stale
\* entry of the scratch buffer
C24_ReadsAreSubTransforms ==
    (Returned /\ ValidLen(Len(arg))) =>
        \A n \in Levels(Len(arg)) : LevelReadsAreSubTransforms(n)

\* a transform of length 8 has returned: its top level reads both terms of
\* iteration 2 and the even term of iteration 3 from the scratch buffer, and
\* the odd term of iteration 3 from the output
C24_Witness ==
    /\ Returned
    /\ Len(arg) = 8
    /\ EvenSource(8, 2).in = "buffer"
    /\ OddSource(8, 2).in = "buffer"
    /\ EvenSource(8, 3).in = "buffer"
    /\ OddSource(8, 3).in = "transformed_xs"
    /\ LevelReadsAreSubTransforms(8)

-----------------------------------------------------------------------------
(* Claims about the size of the scratch buffer, checked under SpecFft *)

\* a call of fft is made and ends
CallStep ==
    /\ stage' # stage
    /\ stage' \in {"forward", "backward", "inverse_only", "panic", "stack_overflow"}

Larger(a, b) == IF a > b THEN a ELSE b

\* the scratch entries iteration i of a level of size n reads and writes are
\* entries of a buffer of `size` entries
ScratchInBounds(n, i, size) ==
    /\ EvenSource(n, i).in = "buffer" => EvenSource(n, i).at < size
    /\ OddSource(n, i).in = "buffer" => OddSource(n, i).at < size
    /\ Saved(n, i).slot < size

\* C25: the scratch buffer never shrinks; a call of fft with a power-of-two
\* length len leaves it with the larger of its length before and len/4
\* entries, which makes its length the largest len/4 of the calls so far;
\* every scratch entry read or written at any level of the transform is below
\* len/4 and so inside the buffer; a transform of length 2 has no combine loop
\* and leaves the buffer as it was
C25_ScratchGrowsToQuarter ==
    [][ /\ Len(buffer') >= Len(buffer)
        /\ (CallStep /\ ValidLen(Len(arg'))) =>
              /\ Len(buffer') = Larger(Len(buffer), Len(arg') \div 4)
              /\ \A n \in Levels(Len(arg')) : \A i \in 0 .. (n \div 2 - 1) :
                    /\ ScratchInBounds(n, i, Len(arg') \div 4)
                    /\ ScratchInBounds(n, i, Len(buffer'))
              /\ Len(arg') = 2 => buffer' = buffer ]_vars

\* a transform of length 4 has returned on an FFTransformer that an earlier
\* transform of length 8 left with 2 scratch entries, and it still has 2
C25_Witness ==
    /\ calls = 2
    /\ stage = "inverse_only"
    /\ Len(arg) = 4
    /\ Len(buffer) = 2

-----------------------------------------------------------------------------
(* Claims about the calls of update() that return early, checked under Spec *)

\* update() is entered
UpdateEnters == cpc = "idle" /\ cpc' = "match"

\* update() returns from its match
EarlyReturn == cpc = "match" /\ cpc' = "idle"

\* now - max_latency is later than the recorded instant
Starved == HasEstimate /\ now - Unwrap(max_latency) > Unwrap(sample_at_instant)[2]

\* C26: update() returns from its match exactly when the tracker has no
\* estimate or the call is starved, and the steps of such a call change
\* neither the ring buffer nor the tracker nor the Spectrum
C26_EarlyReturnChangesNothing ==
    [][ /\ (UpdateEnters \/ EarlyReturn) =>
              UNCHANGED <<ring, capacity, sample_at_instant, max_latency, sliding_dft>>
        /\ EarlyReturn => (~HasEstimate \/ Starved)
        /\ MatchGivesStart => (HasEstimate /\ ~Starved) ]_vars

\* a starved update() has returned, with samples in the buffer, and nothing
\* has happened since it was entered
C26_Witness ==
    /\ cpc = "idle"
    /\ quiet_calls = 1
    /\ ~ticked
    /\ Starved
    /\ Len(ring) > 0

\* C27: once the engine is constructed, the window length update() derives
\* from the Spectrum, 2 x (bins - 1), is the window length N computed by new,
\* and the Spectrum has N/2 + 1 bins
C27_WindowIsConstructedWindow ==
    Constructed =>
        /\ WindowSize = ConstructedWindowSize(latency)
        /\ Len(sliding_dft) = ConstructedWindowSize(latency) \div 2 + 1

-----------------------------------------------------------------------------
(* Claims about the first recompute of the Spectrum, checked under Spec *)

\* the Spectrum has been recomputed
Recomputed == sliding_dft # ZeroSpectrum(latency)

\* process_fft returns because there are not enough samples
InsufficientReturn == cpc = "check" /\ cpc' = "idle"

-----------------------------------------------------------------------------
(* Claims about what update() writes, checked under Spec *)

\* a step of the consumer thread
ConsumerStep == cpc' # cpc

\* the instant of LatencyInfo.sample_at_instant
RecordedInstant == Unwrap(sample_at_instant)[2]

\* C29: no step of update() changes max_latency or the recorded instant, which
\* change only in the callback's record; the only step of update() that changes
\* the recorded count is the one that leaves the match with a window start,
\* which is at most the count and is subtracted from it; and process_fft
\* asks the buffer to discard that same number of samples
C29_UpdateOnlySubtracts ==
    [][ /\ ConsumerStep =>
              /\ max_latency' = max_latency
              /\ IsSome(sample_at_instant') = IsSome(sample_at_instant)
              /\ IsSome(sample_at_instant) => RecordedInstant' = RecordedInstant
              /\ (IsSome(sample_at_instant) /\ ~MatchGivesStart)
                    => RecordedCount' = RecordedCount
        /\ MatchGivesStart =>
              /\ window_start_sample' >= 0
              /\ window_start_sample' <= RecordedCount
              /\ RecordedCount' = RecordedCount - window_start_sample'
        /\ (cpc = "process" /\ ConsumerStep) =>
              /\ ring' = Discard(ring, window_start_sample)
              /\ window_start_sample' = window_start_sample
        /\ (max_latency' # max_latency
              \/ (IsSome(sample_at_instant) /\ RecordedInstant' # RecordedInstant))
              => RecordStep ]_vars

\* update() has subtracted a window start above 0 from the recorded count, at
\* a clock reading later than the recorded instant, and process_fft has
\* discarded as many samples
C29_Witness ==
    /\ cpc = "check"
    /\ window_start_sample > 0
    /\ discarded = window_start_sample
    /\ IsSome(sample_at_instant)
    /\ now > RecordedInstant
    /\ RecordedInstant > 0

-----------------------------------------------------------------------------
(* Claims about the calls of update() that no delivery interleaves with,    *)
(* checked under Spec                                                       *)

\* the call of update() in progress has passed the starvation check, no step
\* of the callback has been made since it was entered nor is a callback in
\* progress, the clock reads what it read at the match, and the subtraction
\* of the window-start computation did not underflow: the recorded count is
\* now the subtracted offset, the samples between window_start_instant and
\* the recorded instant
UndisturbedCall ==
    /\ cpc \in {"process", "check"}
    /\ ppc = "idle"
    /\ quiet_calls >= 1
    /\ ~ticked
    /\ RecordedCount = SamplesIn(TicksBehind)

\* C30: in such a call the occupied length the discard leaves is the
\* subtracted offset, which is at least WindowSize, and the call goes on to
\* the transform, never to the insufficient-samples return
C30_UndisturbedCallRecomputes ==
    [][ /\ (UndisturbedCall /\ cpc = "process" /\ cpc' = "check") =>
              /\ Len(ring') = RecordedCount
              /\ Len(ring') >= WindowSize
        /\ (UndisturbedCall /\ cpc = "check" /\ ConsumerStep) =>
              cpc' = "transform" ]_vars

-----------------------------------------------------------------------------
(* Claims about SlidingDft, checked under SpecSdft *)

\* the last update() went past the halt check to the DFT step
StepRan == returned_at \in {"dft_step", "slice_index"}

\* the occupied length of the ring buffer when that step took its slices: a
\* finished step has discarded window_start samples since, a panicking one none
StepOccupied ==
    IF returned_at = "dft_step" THEN Len(sample_buf) + window_start ELSE Len(sample_buf)

\* C31 as stated: whenever the DFT step of SlidingDft::update runs, its slices
\* [0, window_start) and [window_size, window_size + window_start) lie inside
\* the occupied region of the ring buffer: window_size + window_start is at
\* most the occupied length, so the step never reads out of bounds.
C31_StepSlicesInsideOccupied ==
    StepRan => (window_start >= 0 /\ Len(dft) + window_start <= StepOccupied)

\* no sample has left the front of the ring buffer: what was occupied still is
NothingDiscarded ==
    /\ Len(sample_buf') >= Len(sample_buf)
    /\ SubSeq(sample_buf', 1, Len(sample_buf)) = sample_buf

\* C32: halt_instant is never cleared once it is set.  From a state in which
\* it is set, every step leaves it as it is, leaves the DFT bins as they are,
\* discards no sample and does not decrease latency; no update() reaches the
\* DFT step, and one that does not panic on the way returns from the halt
\* branch, where latency is what it adds to.
C32_HaltIsPermanent ==
    [][ IsSome(halt_instant) =>
          /\ halt_instant' = halt_instant
          /\ dft' = dft
          /\ NothingDiscarded
          /\ sdft_latency' >= sdft_latency
          /\ ~StepRan'
          /\ returned_at' \in {returned_at, "halt_latency"} \cup SdftPanics
          /\ sdft_latency' # sdft_latency => returned_at' = "halt_latency"
      ]_vars

\* a later update() of a halted SlidingDft found the samples of both slices in
\* the buffer and still returned from the halt branch, having added to latency
C32_Witness ==
    /\ IsSome(halt_instant)
    /\ returned_at = "halt_latency"
    /\ sdft_latency > 0
    /\ SlicesInBounds(sample_buf, Len(dft), window_start)
    /\ Len(sample_buf) > Len(dft) * 2

=============================================================================
